---- MODULE Spec2Model ----
(***************************************************************************)
(* Model of the notebook "FX HFT Effects on US Macroeconomic Data          *)
(* Releases": the three fetch functions (yf_get_fx_data,                   *)
(* polygon_get_fx_data, fetch_fred_data) and the feature extractor         *)
(* calculate_volatility.                                                   *)
(*                                                                         *)
(* Representation.                                                         *)
(*   - A float64 cell is a record: Num(v), NaN, PosInf or NegInf.  Prices  *)
(*     are integers in price ticks (one tick = 0.5, so 100.5 is 201);      *)
(*     only ratios of prices are ever read.  Log returns, volatilities and *)
(*     their mean are in units of 1e-6 (Micro); the multiplier is in units *)
(*     of 0.01, which is what round(x, 2) keeps.                           *)
(*   - A DataFrame is a record [cols, axis, index, val]: the column        *)
(*     labels in order, the name of the column axis, the index labels in   *)
(*     order and the cells of each column.                                 *)
(*   - An optional table (Python None or a DataFrame) is a sequence of     *)
(*     length 0 (None) or 1.                                               *)
(***************************************************************************)
EXTENDS Integers, Sequences, FiniteSets, TLC

(* ------------------------------ bounds -------------------------------- *)

\* Longest table handed to calculate_volatility directly.
MaxRows == 3

\* Most bars in a market vendor's response.
MaxBars == 2

\* Most observations in the macro vendor's full history.
MaxObs == 14

(* --------------------------- float64 cells ---------------------------- *)

Num(v) == [k |-> "num", v |-> v]
NaN == [k |-> "nan", v |-> 0]
PosInf == [k |-> "inf", v |-> 1]
NegInf == [k |-> "inf", v |-> -1]

IsNull(x) == x.k = "nan"
IsNum(x) == x.k = "num"

Abs(n) == IF n < 0 THEN -n ELSE n

\* Fixed-point resolution of the derived float columns: 1e-6.
Micro == 1000000

\* ln 2 in Micro units.
Ln2Micro == 693147

\* n / d rounded to the nearest integer, halves up (d > 0).
RoundDiv(n, d) == (2 * n + d) \div (2 * d)

\* n / d rounded to the nearest integer, halves to even (d > 0): numpy's
\* rint, which Series.round and round(series, 2) use.
RoundHalfEven(n, d) ==
    LET q == n \div d
        r == n - q * d
    IN  IF 2 * r < d THEN q
        ELSE IF 2 * r > d THEN q + 1
        ELSE IF q % 2 = 0 THEN q ELSE q + 1

Sign(n) == IF n < 0 THEN -1 ELSE 1

\* x * y / Micro for 0 <= y <= Micro, rounded, without leaving 32 bits.
MulFix(x, y) ==
    Sign(x) * RoundDiv(Abs(x) * (y \div 1000)
                         + RoundDiv(Abs(x) * (y % 1000), 1000), 1000)

\* 2 * atanh(n / d) in Micro units for |n / d| <= 1/5: the series
\* 2 (z + z^3/3 + z^5/5 + z^7/7 + z^9/9), whose remainder is below 1e-8.
Atanh2(n, d) ==
    LET z  == RoundDiv(n * Micro, d)
        z2 == MulFix(Abs(z), Abs(z))
        z3 == MulFix(z, z2)
        z5 == MulFix(z3, z2)
        z7 == MulFix(z5, z2)
        z9 == MulFix(z7, z2)
    IN  RoundDiv(2 * (315 * z + 105 * z3 + 63 * z5 + 45 * z7 + 35 * z9), 315)

\* ln(a / b) in Micro units for integers a, b > 0: halve or double the ratio
\* into [2/3, 4/3] (ln(a/b) = ln(a/2b) + ln 2), then ln r = 2 atanh((r-1)/(r+1)).
RECURSIVE LnMicro(_, _)
LnMicro(a, b) ==
    IF 3 * a > 4 * b THEN Ln2Micro + LnMicro(a, 2 * b)
    ELSE IF 3 * a < 2 * b THEN LnMicro(2 * a, b) - Ln2Micro
    ELSE Atanh2(a - b, a + b)

\* np.log(x / y) on two float cells: IEEE division, then the logarithm
\* (log of a negative number or of NaN is NaN, log 0 = -inf, log inf = inf).
LogOfRatio(x, y) ==
    IF ~IsNum(x) \/ ~IsNum(y) THEN NaN
    ELSE IF y.v = 0
         THEN (IF x.v > 0 THEN PosInf ELSE NaN)
    ELSE IF x.v = 0 THEN NegInf
    ELSE IF (x.v < 0) # (y.v < 0) THEN NaN
    ELSE Num(LnMicro(Abs(x.v), Abs(y.v)))

\* Series.abs on one cell.
\* (Faulty variant: the sign is kept.)
AbsCell_Signed(x) == x
AbsCell(x) ==
    IF IsNum(x) THEN Num(Abs(x.v))
    ELSE IF IsNull(x) THEN NaN
    ELSE PosInf

RECURSIVE SumNum(_)
SumNum(s) == IF s = <<>> THEN 0 ELSE Head(s).v + SumNum(Tail(s))

\* Series.mean(): NaN cells are skipped; NaN when nothing is left; an
\* infinite cell makes the mean infinite.
MeanSkipNa(s) ==
    LET kept == SelectSeq(s, LAMBDA x : ~IsNull(x))
    IN  IF kept = <<>> THEN NaN
        ELSE IF \E i \in 1..Len(kept) : ~IsNum(kept[i]) THEN PosInf
        ELSE Num(RoundDiv(SumNum(kept), Len(kept)))

\* round(x / y, 2) on two non-negative cells, in units of 0.01.
\* (Faulty variant: the quotient is cut, not rounded, and only the finite
\* case is handled.)
DivRound2_Truncated(x, y) ==
    IF IsNum(x) /\ IsNum(y) /\ y.v > 0 THEN Num((100 * x.v) \div y.v) ELSE NaN
DivRound2(x, y) ==
    IF IsNull(x) \/ IsNull(y) THEN NaN
    ELSE IF ~IsNum(y) THEN (IF IsNum(x) THEN Num(0) ELSE NaN)
    ELSE IF y.v = 0 THEN (IF IsNum(x) /\ x.v = 0 THEN NaN ELSE PosInf)
    ELSE IF ~IsNum(x) THEN PosInf
    ELSE Num(RoundHalfEven(100 * x.v, y.v))

(* ----------------------------- DataFrames ----------------------------- *)

Range(s) == {s[i] : i \in 1..Len(s)}

NoneValue == <<>>
Some(t) == <<t>>
IsNone(m) == m = <<>>

NRows(t) == Len(t.index)

\* DataFrame.empty: an axis of length 0.
IsEmpty(t) == Len(t.index) = 0 \/ Len(t.cols) = 0

HasCol(t, c) == c \in Range(t.cols)

\* df[c] = cells: an existing column is overwritten where it stands, a new
\* one is appended after the others.
\* (Faulty variant: a new column is put before the others.)
SetCol_Front(t, c, cells) ==
    [t EXCEPT !.cols = IF HasCol(t, c) THEN t.cols ELSE <<c>> \o t.cols,
              !.val = [d \in DOMAIN t.val \cup {c} |->
                          IF d = c THEN cells ELSE t.val[d]]]
\* (Faulty variant: the label is appended even when the table has it.)
SetCol_AlwaysAppend(t, c, cells) ==
    [t EXCEPT !.cols = Append(t.cols, c),
              !.val = [d \in DOMAIN t.val \cup {c} |->
                          IF d = c THEN cells ELSE t.val[d]]]
SetCol(t, c, cells) ==
    [t EXCEPT !.cols = IF HasCol(t, c) THEN t.cols ELSE Append(t.cols, c),
              !.val = [d \in DOMAIN t.val \cup {c} |->
                          IF d = c THEN cells ELSE t.val[d]]]

\* Series.shift(1): the first cell becomes NaN.
\* (Faulty variant: the first cell is filled with itself.)
Shift1_Backfilled(s) == [i \in 1..Len(s) |-> IF i = 1 THEN s[1] ELSE s[i - 1]]
Shift1(s) == [i \in 1..Len(s) |-> IF i = 1 THEN NaN ELSE s[i - 1]]

(* ------------------------ calculate_volatility ------------------------ *)

\* The column calculate_volatility reads.
CloseColumn == "Adj Close"

\* The guard "df is None or df.empty".
\* (Faulty variant: df.empty is not looked at.)
InvalidInput_NoneOnly(df) == IsNone(df)
InvalidInput(df) == IsNone(df) \/ IsEmpty(df[1])

\* np.log(close / close.shift(1)).
LogReturns(close) ==
    LET prev == Shift1(close)
    IN  [i \in 1..Len(close) |-> LogOfRatio(close[i], prev[i])]

\* The result of a call: how it ended ("return" or "raise"), the value
\* returned, what it printed, the exception that escaped, the state of the
\* caller's table object after the call (obj) and the requests it sent to
\* a vendor (req).
Returned(v, printed, o) ==
    [kind |-> "return", ret |-> v, out |-> printed, exc |-> "", obj |-> o,
     req |-> <<>>]
Raised(e, o) ==
    [kind |-> "raise", ret |-> NoneValue, out |-> <<>>, exc |-> e, obj |-> o,
     req |-> <<>>]

KeyError(c) == "KeyError: " \o c

\* The four assignments, made in place on the caller's object.
\* (Faulty variant: the average is a trailing mean, over the rows up to
\* the current one.)
AddVolatilityColumns_Trailing(t0) ==
    LET n  == NRows(t0)
        t1 == SetCol(t0, "Log_Returns", LogReturns(t0.val[CloseColumn]))
        t2 == SetCol(t1, "Volatility",
                     [i \in 1..n |-> AbsCell(t1.val["Log_Returns"][i])])
        t3 == SetCol(t2, "Average_Volatility",
                     [i \in 1..n |-> MeanSkipNa(SubSeq(t2.val["Volatility"], 1, i))])
    IN  SetCol(t3, "Volatility_Multiplier",
               [i \in 1..n |-> DivRound2(t3.val["Volatility"][i],
                                         t3.val["Average_Volatility"][i])])
AddVolatilityColumns(t0) ==
    LET n  == NRows(t0)
        t1 == SetCol(t0, "Log_Returns", LogReturns(t0.val[CloseColumn]))
        t2 == SetCol(t1, "Volatility",
                     [i \in 1..n |-> AbsCell(t1.val["Log_Returns"][i])])
        avg == MeanSkipNa(t2.val["Volatility"])
        t3 == SetCol(t2, "Average_Volatility", [i \in 1..n |-> avg])
    IN  SetCol(t3, "Volatility_Multiplier",
               [i \in 1..n |-> DivRound2(t3.val["Volatility"][i],
                                         t3.val["Average_Volatility"][i])])

\* (Faulty variant: the columns are added to a copy, the caller's object is
\* left as it was.)
calculate_volatility_OnCopy(df) ==
    IF InvalidInput(df)
    THEN Returned(NoneValue, <<"Error: DataFrame is empty or invalid.">>, df)
    ELSE IF ~HasCol(df[1], CloseColumn)
    THEN Raised(KeyError(CloseColumn), df)
    ELSE Returned(Some(AddVolatilityColumns(df[1])), <<>>, df)
\* (Faulty variant: None is returned for an invalid input without a message.)
calculate_volatility_Quiet(df) ==
    IF InvalidInput(df)
    THEN Returned(NoneValue, <<>>, df)
    ELSE IF ~HasCol(df[1], CloseColumn)
    THEN Raised(KeyError(CloseColumn), df)
    ELSE LET t == AddVolatilityColumns(df[1])
         IN  Returned(Some(t), <<>>, Some(t))
calculate_volatility(df) ==
    IF InvalidInput(df)
    THEN Returned(NoneValue, <<"Error: DataFrame is empty or invalid.">>, df)
    ELSE IF ~HasCol(df[1], CloseColumn)
    THEN Raised(KeyError(CloseColumn), df)
    ELSE LET t == AddVolatilityColumns(df[1])
         IN  Returned(Some(t), <<>>, Some(t))

(* ------------------------------ fetchers ------------------------------ *)

\* A pandas Timestamp: whole seconds since the epoch and milliseconds.
Timestamp(sec, ms) == [sec |-> sec, ms |-> ms]

\* The cell a vendor record holds in field c: the raw time in "timestamp",
\* the bar's price in every other field.
FieldCell(c, bar) == IF c = "timestamp" THEN Num(bar.ts) ELSE bar.close

\* pd.DataFrame(records) / the table a vendor hands back: one column per
\* field, one row per record; no record, no column.
FrameOf(fields, rows, index) ==
    [cols  |-> IF rows = <<>> THEN <<>> ELSE fields,
     axis  |-> "",
     index |-> index,
     val   |-> [c \in (IF rows = <<>> THEN {} ELSE Range(fields)) |->
                  [i \in 1..Len(rows) |-> FieldCell(c, rows[i])]]]

\* df[[c1, ..., cn]]: the named columns in the order asked for.
\* (Faulty variant: nothing is selected, every column stays.)
SelectCols_KeepAll(t, wanted) == t
SelectCols(t, wanted) ==
    [t EXCEPT !.cols = wanted,
              !.val = [c \in Range(wanted) |-> t.val[c]]]

\* df.drop(columns = gone).
DropCols(t, gone) ==
    [t EXCEPT !.cols = SelectSeq(t.cols, LAMBDA c : c \notin gone),
              !.val = [c \in Range(t.cols) \ gone |-> t.val[c]]]

\* df.rename(columns = f): labels that f does not name are kept.
RenameCols(t, f) ==
    LET new(c) == IF c \in DOMAIN f THEN f[c] ELSE c
    IN  [t EXCEPT !.cols = [i \in 1..Len(t.cols) |-> new(t.cols[i])],
                  !.val = [d \in {new(c) : c \in Range(t.cols)} |->
                             t.val[CHOOSE c \in Range(t.cols) : new(c) = d]]]

\* df.rename_axis(name, axis=1).
\* (Faulty variant: the axis keeps the name it had.)
RenameAxis_Keep(t, name) == t
RenameAxis(t, name) == [t EXCEPT !.axis = name]

\* try: ... except Exception as e: print(prefix + str(e)); return None
\* (Faulty variant: no handler, the exception goes on to the caller.)
Catch_Reraise(body, prefix) == body
\* (Faulty variant: the handler returns None without printing.)
Catch_Silent(body, prefix) ==
    IF body.kind = "raise"
    THEN [Returned(NoneValue, <<>>, NoneValue) EXCEPT !.req = body.req]
    ELSE body
Catch(body, prefix) ==
    IF body.kind = "raise"
    THEN [Returned(NoneValue, <<prefix \o body.exc>>, NoneValue)
             EXCEPT !.req = body.req]
    ELSE body

Sent(outcome, request) == [outcome EXCEPT !.req = <<request>>]

(* yf_get_fx_data *)

SecondsPerMinute == 60

\* index.strftime('%Y-%m-%d %H:%M'): the text names the minute.
Strftime(ts) == ts.sec \div SecondsPerMinute
\* pd.to_datetime on that text.
ToDatetime(minute) == Timestamp(minute * SecondsPerMinute, 0)

\* data[[...]]: the columns the notebook selects, and those its checkpoint
\* copy selects.
YfSelectedNotebook == <<"Open", "High", "Low", "Adj Close">>
YfSelectedCheckpoint == <<"Open", "High", "Low", "Close">>
YfSelected(rev) ==
    IF rev = "checkpoint" THEN YfSelectedCheckpoint ELSE YfSelectedNotebook

\* The statements under try.  resp is what yf.download does: it raises, or
\* returns a table whose index is a DatetimeIndex or not (dt) and whose
\* columns have two levels or one (multi).
YfBody(rev, fx_pair, resp) ==
    IF resp.raises THEN Raised("download failed", NoneValue)
    ELSE IF ~resp.dt THEN Raised("AttributeError: strftime", NoneValue)
    ELSE IF ~resp.multi THEN Raised("IndexError: Too many levels", NoneValue)
    ELSE LET raw == [cols  |-> resp.fields,
                     axis  |-> "Price",
                     index |-> [i \in 1..Len(resp.rows) |-> resp.rows[i].ts],
                     val   |-> [c \in Range(resp.fields) |->
                                  [i \in 1..Len(resp.rows) |-> resp.rows[i].close]]]
             text == [i \in 1..NRows(raw) |-> Strftime(raw.index[i])]
             named == RenameAxis(raw, fx_pair)
             parsed == [named EXCEPT !.index =
                            [i \in 1..Len(text) |-> ToDatetime(text[i])]]
             missing == {c \in Range(YfSelected(rev)) : ~HasCol(parsed, c)}
         IN  IF missing # {}
             THEN Raised(KeyError(CHOOSE c \in missing : TRUE), NoneValue)
             ELSE Returned(Some(SelectCols(parsed, YfSelected(rev))), <<>>, NoneValue)

yf_get_fx_data(rev, fx_pair, resp) ==
    Sent(Catch(YfBody(rev, fx_pair, resp), "An error occurred: "),
         [vendor |-> "yf", ticker |-> fx_pair])

(* polygon_get_fx_data *)

\* "C:" + str(fx_pair)
\* (Faulty variant: the code is sent as given.)
PolygonTicker_Plain(fx_pair) == fx_pair
PolygonTicker(fx_pair) == "C:" \o fx_pair

\* pd.to_datetime(ms, unit="ms")
\* (Faulty variant: the number is read as seconds.)
FromEpochMs_AsSeconds(ms) == Timestamp(ms, 0)
FromEpochMs(ms) == Timestamp(ms \div 1000, ms % 1000)

\* The columns df.drop removes.  (Faulty variant: vwap goes too.)
PolygonDropped_AndVwap == {"otc", "transactions", "timestamp", "vwap"}
PolygonDropped == {"otc", "transactions", "timestamp"}

PolygonRenames ==
    [c \in {"open", "high", "low", "close", "volume"} |->
        CASE c = "open" -> "Open"
          [] c = "high" -> "High"
          [] c = "low" -> "Low"
          [] c = "close" -> "Adj Close"
          [] c = "volume" -> "Volume"]

\* The check "if df.empty".
\* (Faulty variant: the check is missing.)
PolygonNoData_Never(df) == FALSE
PolygonNoData(df) == IsEmpty(df)

\* The statements under try.  resp is what client.get_aggs does: it raises,
\* or returns a list of records that all have the fields resp.fields.
PolygonBody(fx_pair, resp) ==
    IF resp.raises THEN Raised("get_aggs failed", NoneValue)
    ELSE LET df == FrameOf(resp.fields, resp.rows,
                           [i \in 1..Len(resp.rows) |-> i - 1])
         IN  IF PolygonNoData(df)
             THEN Returned(NoneValue, <<"No data found.">>, NoneValue)
             ELSE IF ~HasCol(df, "timestamp")
             THEN Raised(KeyError("timestamp"), NoneValue)
             ELSE LET indexed ==
                          [df EXCEPT !.index =
                              [i \in 1..NRows(df) |->
                                  FromEpochMs(df.val["timestamp"][i].v)]]
                      gone == {c \in PolygonDropped : ~HasCol(indexed, c)}
                  IN  IF gone # {}
                      THEN Raised(KeyError(CHOOSE c \in gone : TRUE), NoneValue)
                      ELSE Returned(
                             Some(RenameAxis(
                                    RenameCols(DropCols(indexed, PolygonDropped),
                                               PolygonRenames),
                                    fx_pair)),
                             <<>>, NoneValue)

polygon_get_fx_data(fx_pair, resp) ==
    Sent(Catch(PolygonBody(fx_pair, resp), "An error occurred: "),
         [vendor |-> "polygon", ticker |-> PolygonTicker(fx_pair)])

(* fetch_fred_data *)

\* x / y - 1 on two cells, in units of 1 / scale, rounded half to even.
RatioLessOne(x, y, scale) ==
    IF ~IsNum(x) \/ ~IsNum(y) THEN NaN
    ELSE IF y.v = 0
         THEN (IF x.v > 0 THEN PosInf ELSE IF x.v < 0 THEN NegInf ELSE NaN)
    ELSE IF y.v > 0 THEN Num(RoundHalfEven((x.v - y.v) * scale, y.v))
    ELSE Num(RoundHalfEven((y.v - x.v) * scale, -y.v))

\* Series.ffill(): a missing cell takes the last cell before it that is not
\* missing; missing cells at the start stay missing.
Pad(s) ==
    [i \in 1..Len(s) |->
        LET valid == {j \in 1..i : ~IsNull(s[j])}
        IN  IF valid = {} THEN NaN
            ELSE s[CHOOSE j \in valid : \A k \in valid : k <= j]]

\* Series.pct_change(periods) scaled and rounded: (s.pct_change(k)).round(4)
\* is in units of 1e-4, (s.pct_change(k) * 100).round(2) in units of 0.01.
\* pct_change is called without fill_method, which in the pandas of the
\* notebook's kernel (Python 3.10, so pandas before 3.0) means 'pad': the
\* series is forward-filled, then divided by its shift.
PctChange(s, periods, scale) ==
    LET data == Pad(s)
    IN  [i \in 1..Len(s) |->
            IF i <= periods THEN NaN
            ELSE RatioLessOne(data[i], data[i - periods], scale)]

\* Decimal places kept by .round(4), as a scale.
PctScale == 10000
\* Percent (* 100) at .round(2), as a scale.
YoYScale == 10000
\* pct_change(12)
YoYPeriods == 12

\* if indicator == "CPIAUCSL"
\* (Faulty variant: every indicator gets the column.)
IsInflationSeries_Any(indicator) == TRUE
IsInflationSeries(indicator) == indicator = "CPIAUCSL"

\* df.loc[start_date:end_date] on a date index: both ends included.
\* (Faulty variant: the end is left out, as in a positional slice.)
LocSlice_EndExcluded(t, start, end) ==
    LET keep == SelectSeq([i \in 1..NRows(t) |-> i],
                          LAMBDA i : start <= t.index[i] /\ t.index[i] < end)
    IN  [t EXCEPT !.index = [j \in 1..Len(keep) |-> t.index[keep[j]]],
                  !.val = [c \in DOMAIN t.val |->
                             [j \in 1..Len(keep) |-> t.val[c][keep[j]]]]]
LocSlice(t, start, end) ==
    LET keep == SelectSeq([i \in 1..NRows(t) |-> i],
                          LAMBDA i : start <= t.index[i] /\ t.index[i] <= end)
    IN  [t EXCEPT !.index = [j \in 1..Len(keep) |-> t.index[keep[j]]],
                  !.val = [c \in DOMAIN t.val |->
                             [j \in 1..Len(keep) |-> t.val[c][keep[j]]]]]

\* The statements under try.  resp is what fred.get_series does: it raises,
\* or returns the full history of the series, oldest first.
FredBody(indicator, start, end, resp) ==
    IF resp.raises THEN Raised("get_series failed", NoneValue)
    ELSE LET n == Len(resp.series)
             full == [cols  |-> <<indicator>>,
                      axis  |-> "",
                      index |-> [i \in 1..n |-> resp.series[i].date],
                      val   |-> [c \in {indicator} |->
                                   [i \in 1..n |-> resp.series[i].value]]]
             df == LocSlice(full, start, end)
             pct == SetCol(df, "Percentage_Change",
                           PctChange(df.val[indicator], 1, PctScale))
         IN  IF IsInflationSeries(indicator)
             THEN Returned(Some(SetCol(pct, "YoY_Inflation",
                                       PctChange(pct.val[indicator], YoYPeriods,
                                                 YoYScale))),
                           <<>>, NoneValue)
             ELSE Returned(Some(pct), <<>>, NoneValue)

fetch_fred_data(indicator, start, end, resp) ==
    Sent(Catch(FredBody(indicator, start, end, resp), "Error fetching data: "),
         [vendor |-> "fred", ticker |-> indicator])

(* ------------------------------- inputs ------------------------------- *)

SeqsUpTo(S, n) == UNION {[1..k -> S] : k \in 0..n}

\* Close prices of a table handed to calculate_volatility, in ticks of 0.5:
\* 1.0, 3.0, 100.0, 100.5, 101.0, a zero and a missing price.
CloseCells == {NaN, Num(0), Num(2), Num(6), Num(200), Num(201), Num(202)}

\* Column layouts of such a table: the notebook's yf layout, its checkpoint
\* copy's yf layout, and the polygon layout.
InputLayouts ==
    {<<"Open", "High", "Low", "Adj Close">>,
     <<"Open", "High", "Low", "Close">>,
     <<"Open", "High", "Low", "Adj Close", "Volume", "vwap">>}

InputTable(layout, closes) ==
    [cols  |-> layout,
     axis  |-> "USDGBP",
     index |-> [i \in 1..Len(closes) |-> Timestamp(i * SecondsPerMinute, 0)],
     val   |-> [c \in Range(layout) |-> closes]]

VolInputs ==
    {NoneValue} \cup
    {Some(InputTable(l, cs)) : l \in InputLayouts, cs \in SeqsUpTo(CloseCells, MaxRows)}

YfPairs == {"GBPUSD=X", "DX-Y.NYB"}
PolygonPairs == {"USDGBP", "USDEUR"}
Indicators == {"CPIAUCSL", "UNRATE", "cpiaucsl"}
Revisions == {"notebook", "checkpoint"}

BarCloses == {Num(200), Num(202)}

YfBars == {[ts |-> Timestamp(sec, 0), close |-> c] : sec \in {0, 30, 60}, c \in BarCloses}

\* Column labels yf.download has used: with and without "Adj Close", and
\* with the corporate-action fields.
YfFieldLayouts ==
    {<<"Adj Close", "Close", "High", "Low", "Open", "Volume">>,
     <<"Close", "High", "Low", "Open", "Volume">>,
     <<"Adj Close", "Close", "Dividends", "High", "Low", "Open", "Stock Splits", "Volume">>}

YfResponses ==
    {[raises |-> TRUE, dt |-> TRUE, multi |-> TRUE, fields |-> <<>>, rows |-> <<>>]}
    \cup
    {[raises |-> FALSE, dt |-> d, multi |-> m, fields |-> f, rows |-> r] :
        d \in BOOLEAN, m \in BOOLEAN, f \in YfFieldLayouts,
        r \in SeqsUpTo(YfBars, MaxBars)}

PolygonBars == {[ts |-> ms, close |-> c] : ms \in {0, 60000, 60500}, c \in BarCloses}

\* Fields of the records get_aggs returns: the vendor's aggregate record,
\* and records that lack one or two of its fields.
PolygonFieldLayouts ==
    {<<"open", "high", "low", "close", "volume", "vwap", "timestamp", "transactions", "otc">>,
     <<"open", "high", "low", "close", "volume", "vwap", "timestamp", "transactions">>,
     <<"open", "high", "low", "close", "volume", "vwap", "transactions", "otc">>,
     <<"open", "high", "low", "volume", "vwap", "timestamp", "transactions", "otc">>,
     <<"open", "high", "low", "close", "timestamp", "transactions", "otc">>}

PolygonResponses ==
    {[raises |-> TRUE, fields |-> <<>>, rows |-> <<>>]}
    \cup
    {[raises |-> FALSE, fields |-> f, rows |-> r] :
        f \in PolygonFieldLayouts, r \in SeqsUpTo(PolygonBars, MaxBars)}

\* Histories of a macro series: observation i is dated month i; the level
\* rises steadily, stays flat or alternates; in a history with a gap the
\* level rises and the vendor has no value for month 2 (fredapi gives NaN
\* for the vendor's ".").
FredLevel(shape, i) ==
    CASE shape \in {"rising", "gap"} -> 200 + 3 * i
      [] shape = "flat" -> 200
      [] shape = "zigzag" -> 200 + 5 * (i % 2)

FredValue(shape, i) ==
    IF shape = "gap" /\ i = 2 THEN NaN ELSE Num(FredLevel(shape, i))

FredSeries ==
    {[i \in 1..n |-> [date |-> i, value |-> FredValue(shape, i)]] :
        n \in {0, 1, 2, MaxObs}, shape \in {"rising", "flat", "zigzag", "gap"}}

FredResponses ==
    {[raises |-> TRUE, series |-> <<>>]}
    \cup {[raises |-> FALSE, series |-> s] : s \in FredSeries}

\* start_date and end_date, as month numbers.
FredWindows == {[start |-> a, end |-> b] : a \in {1, 2}, b \in {0, 3, MaxObs}}

(* --------------------------- state machine ---------------------------- *)

VARIABLES
    pc,      \* "call": about to run fn; "returned": fn has ended;
             \* "piped": calculate_volatility has run on what fn returned
    fn,      \* the function the cell calls
    rev,     \* the copy of the notebook that runs
    arg,     \* the call's arguments
    vendor,  \* what the vendor does when asked
    input,   \* the table given to calculate_volatility, as it was at the call
    df,      \* the caller's table object, as it is now
    res,     \* how fn ended
    post     \* how calculate_volatility(fn(...)) ended

vars == <<pc, fn, rev, arg, vendor, input, df, res, post>>

Pending ==
    [kind |-> "pending", ret |-> NoneValue, out |-> <<>>, exc |-> "",
     obj |-> NoneValue, req |-> <<>>]

NoArg == [name |-> "", start |-> 0, end |-> 0]
NoVendor == [raises |-> FALSE]

Fetchers == {"yf_get_fx_data", "polygon_get_fx_data", "fetch_fred_data"}

Init ==
    /\ pc = "call"
    /\ res = Pending
    /\ post = Pending
    /\ \/ /\ fn = "yf_get_fx_data"
          /\ rev \in Revisions
          /\ arg \in {[name |-> p, start |-> 0, end |-> 0] : p \in YfPairs}
          /\ vendor \in YfResponses
          /\ input = NoneValue
       \/ /\ fn = "polygon_get_fx_data"
          /\ rev = "notebook"
          /\ arg \in {[name |-> p, start |-> 0, end |-> 0] : p \in PolygonPairs}
          /\ vendor \in PolygonResponses
          /\ input = NoneValue
       \/ /\ fn = "fetch_fred_data"
          /\ rev = "notebook"
          /\ arg \in {[name |-> i, start |-> w.start, end |-> w.end] :
                         i \in Indicators, w \in FredWindows}
          /\ vendor \in FredResponses
          /\ input = NoneValue
       \/ /\ fn = "calculate_volatility"
          /\ rev = "notebook"
          /\ arg = NoArg
          /\ vendor = NoVendor
          /\ input \in VolInputs
    /\ df = input

\* A cell calls yf_get_fx_data.
YfGetFxData ==
    /\ pc = "call" /\ fn = "yf_get_fx_data"
    /\ res' = yf_get_fx_data(rev, arg.name, vendor)
    /\ df' = res'.ret
    /\ pc' = "returned"
    /\ UNCHANGED <<fn, rev, arg, vendor, input, post>>

\* A cell calls polygon_get_fx_data.
PolygonGetFxData ==
    /\ pc = "call" /\ fn = "polygon_get_fx_data"
    /\ res' = polygon_get_fx_data(arg.name, vendor)
    /\ df' = res'.ret
    /\ pc' = "returned"
    /\ UNCHANGED <<fn, rev, arg, vendor, input, post>>

\* A cell calls fetch_fred_data.
FetchFredData ==
    /\ pc = "call" /\ fn = "fetch_fred_data"
    /\ res' = fetch_fred_data(arg.name, arg.start, arg.end, vendor)
    /\ df' = res'.ret
    /\ pc' = "returned"
    /\ UNCHANGED <<fn, rev, arg, vendor, input, post>>

\* A cell calls calculate_volatility on a table it holds.
CalculateVolatility ==
    /\ pc = "call" /\ fn = "calculate_volatility"
    /\ res' = calculate_volatility(df)
    /\ df' = res'.obj
    /\ pc' = "returned"
    /\ UNCHANGED <<fn, rev, arg, vendor, input, post>>

\* The test cell: calculate_volatility(yf_get_fx_data(...)) and
\* calculate_volatility(polygon_get_fx_data(...)).
Pipeline ==
    /\ pc = "returned" /\ fn \in {"yf_get_fx_data", "polygon_get_fx_data"}
    /\ res.kind = "return"
    /\ post' = calculate_volatility(df)
    /\ df' = post'.obj
    /\ pc' = "piped"
    /\ UNCHANGED <<fn, rev, arg, vendor, input, res>>

\* calculate_volatility(calculate_volatility(df)): the function is given
\* what it returned, the table it has already added its columns to or None.
Reapply ==
    /\ pc = "returned" /\ fn = "calculate_volatility"
    /\ res.kind = "return"
    /\ post' = calculate_volatility(res.ret)
    /\ df' = IF IsNone(res.ret) THEN df ELSE post'.obj
    /\ pc' = "piped"
    /\ UNCHANGED <<fn, rev, arg, vendor, input, res>>

Next ==
    \/ YfGetFxData
    \/ PolygonGetFxData
    \/ FetchFredData
    \/ CalculateVolatility
    \/ Pipeline
    \/ Reapply

Spec == Init /\ [][Next]_vars

(* ------------------------------- claims ------------------------------- *)

Ended == pc # "call"
Called(f) == Ended /\ fn = f
Table(m) == m[1]

\* A vendor response that makes a normalization step of the fetcher raise.
Malformed ==
    CASE fn = "yf_get_fx_data" ->
            \/ ~vendor.dt
            \/ ~vendor.multi
            \/ \E c \in {"Open", "High", "Low",
                          IF rev = "checkpoint" THEN "Close" ELSE "Adj Close"} :
                  c \notin Range(vendor.fields)
      [] fn = "polygon_get_fx_data" ->
            /\ vendor.rows # <<>>
            /\ \E c \in {"timestamp", "otc", "transactions"} :
                  c \notin Range(vendor.fields)
      [] OTHER -> FALSE

\* C1: whatever the vendor does (the call raises, or the response is
\* malformed so that a normalization step raises), each of the three fetch
\* functions returns; on such a failure it returns None after printing one
\* diagnostic, and no exception reaches the caller.
C1_FetchersCatchEverything ==
    (Ended /\ fn \in Fetchers) =>
        /\ res.kind = "return"
        /\ (vendor.raises \/ Malformed) =>
              /\ IsNone(res.ret)
              /\ Len(res.out) = 1

C1_Witness ==
    /\ Ended /\ fn \in Fetchers
    /\ ~vendor.raises /\ Malformed
    /\ res.kind = "return" /\ IsNone(res.ret) /\ Len(res.out) = 1

\* C2: for every input table (None, zero rows, non-empty with or without
\* the close-price column) calculate_volatility ends by returning an
\* augmented table or None, never by raising.
C2_ExtractorNeverRaises ==
    Called("calculate_volatility") => res.kind = "return"

\* C3: calculate_volatility on None or on a table with zero rows prints a
\* diagnostic, returns None, adds no column to its input and does not raise.
C3_EmptyOrAbsentGivesNone ==
    (Called("calculate_volatility") /\ (IsNone(input) \/ NRows(Table(input)) = 0)) =>
        /\ res.kind = "return"
        /\ IsNone(res.ret)
        /\ res.out = <<"Error: DataFrame is empty or invalid.">>
        /\ res.obj = input

C3_Witness ==
    /\ Called("calculate_volatility")
    /\ ~IsNone(input) /\ NRows(Table(input)) = 0
    /\ HasCol(Table(input), "Adj Close")
    /\ IsNone(res.ret) /\ Len(res.out) = 1

\* C4 as stated: a successful yf_get_fx_data or polygon_get_fx_data result
\* has exactly the columns {Open, High, Low, Close} or
\* {Open, High, Low, Close, Volume}.
C4_ColumnsAreOHLCV ==
    (Ended /\ fn \in {"yf_get_fx_data", "polygon_get_fx_data"} /\ ~IsNone(res.ret)) =>
        Range(Table(res.ret).cols) \in
            {{"Open", "High", "Low", "Close"},
             {"Open", "High", "Low", "Close", "Volume"}}

\* What polygon_get_fx_data is to call a vendor field.
C4_Canonical(c) ==
    CASE c = "open" -> "Open"
      [] c = "high" -> "High"
      [] c = "low" -> "Low"
      [] c = "close" -> "Adj Close"
      [] c = "volume" -> "Volume"
      [] OTHER -> c

\* C4 amended: a successful yf_get_fx_data result has exactly the columns
\* Open, High, Low, Adj Close (Open, High, Low, Close in the checkpoint
\* copy); a successful polygon_get_fx_data result has every vendor field
\* but timestamp, otc and transactions, the five OHLCV fields under the names
\* Open, High, Low, Adj Close, Volume and any other field (vwap) under its
\* own name: Open, High, Low, Adj Close, Volume, vwap for the vendor's
\* aggregate record.
C4_ColumnsAsNormalized ==
    /\ (Called("yf_get_fx_data") /\ ~IsNone(res.ret)) =>
          Table(res.ret).cols =
              <<"Open", "High", "Low", IF rev = "checkpoint" THEN "Close" ELSE "Adj Close">>
    /\ (Called("polygon_get_fx_data") /\ ~IsNone(res.ret)) =>
          /\ Range(Table(res.ret).cols) =
                {C4_Canonical(c) :
                    c \in Range(vendor.fields) \ {"timestamp", "otc", "transactions"}}
          /\ Len(Table(res.ret).cols) = Len(vendor.fields) - 3
          /\ Len(vendor.fields) = 9 =>
                Table(res.ret).cols =
                    <<"Open", "High", "Low", "Adj Close", "Volume", "vwap">>

C4_Witness ==
    /\ Called("polygon_get_fx_data") /\ ~IsNone(res.ret)
    /\ Table(res.ret).cols = <<"Open", "High", "Low", "Adj Close", "Volume", "vwap">>

\* A cell within 1e-5 of v (in Micro units): one unit of the last decimal
\* the example prints.
Near(x, v) == IsNum(x) /\ Abs(x.v - v) <= 10

\* The example's input: closes 100.0, 101.0, 100.5 (in ticks of 0.5).
C5_Input ==
    /\ ~IsNone(input)
    /\ HasCol(Table(input), "Adj Close")
    /\ Table(input).val["Adj Close"] = <<Num(200), Num(202), Num(201)>>

\* C5: on closes [100.0, 101.0, 100.5] calculate_volatility returns three
\* rows with log_return ~ [null, 0.00995, -0.00497], volatility
\* ~ [null, 0.00995, 0.00497], average_volatility ~ 0.00746 on every row and
\* volatility_multiplier [null, 1.33, 0.67].
C5_EndToEndExample ==
    (Called("calculate_volatility") /\ C5_Input) =>
        /\ res.kind = "return" /\ ~IsNone(res.ret)
        /\ LET t == Table(res.ret)
           IN  /\ NRows(t) = 3
               /\ IsNull(t.val["Log_Returns"][1])
               /\ Near(t.val["Log_Returns"][2], 9950)
               /\ Near(t.val["Log_Returns"][3], -4970)
               /\ IsNull(t.val["Volatility"][1])
               /\ Near(t.val["Volatility"][2], 9950)
               /\ Near(t.val["Volatility"][3], 4970)
               /\ \A i \in 1..3 : Near(t.val["Average_Volatility"][i], 7460)
               /\ t.val["Volatility_Multiplier"] = <<NaN, Num(133), Num(67)>>

C5_Witness ==
    /\ Called("calculate_volatility") /\ C5_Input
    /\ ~IsNone(res.ret)
    /\ Table(res.ret).val["Volatility_Multiplier"][2] = Num(133)

\* C6: in a table calculate_volatility returns, Log_Returns, Volatility and
\* Volatility_Multiplier are null in the first row and non-null in every
\* later row t whose close[t-1] is non-null and non-zero.
C6_NullAtStartDefinedAfter ==
    (Called("calculate_volatility") /\ res.kind = "return" /\ ~IsNone(res.ret)) =>
        LET t == Table(res.ret)
            close == t.val["Adj Close"]
        IN  \A c \in {"Log_Returns", "Volatility", "Volatility_Multiplier"} :
                \A i \in 1..NRows(t) :
                    /\ i = 1 => IsNull(t.val[c][i])
                    /\ (i > 1 /\ close[i - 1] \notin {NaN, Num(0)}) =>
                          ~IsNull(t.val[c][i])

\* |m * avg - vol| for a multiplier m (units of 0.01), avg and vol (Micro
\* units), in units of 1e-8.
C7_Gap(m, avg, vol) == Abs(m.v * avg.v - 100 * vol.v)

C8_YoYOnlyForInflation ==
    (Called("fetch_fred_data") /\ ~IsNone(res.ret)) =>
        LET t == Table(res.ret)
        IN  /\ HasCol(t, "YoY_Inflation") <=> arg.name = "CPIAUCSL"
            /\ arg.name # "CPIAUCSL" => t.cols = <<arg.name, "Percentage_Change">>
            /\ arg.name = "CPIAUCSL" =>
                  t.cols = <<"CPIAUCSL", "Percentage_Change", "YoY_Inflation">>

C8_Witness ==
    /\ Called("fetch_fred_data") /\ ~IsNone(res.ret)
    /\ arg.name = "CPIAUCSL"
    /\ NRows(Table(res.ret)) > YoYPeriods
    /\ IsNum(Table(res.ret).val["YoY_Inflation"][YoYPeriods + 1])

\* C9: polygon_get_fx_data sends the vendor one request, whose ticker is
\* "C:" followed by the instrument code it was given ("USDGBP" asks for
\* "C:USDGBP"), whether or not the vendor then answers.
C9_PrefixedTicker ==
    Called("polygon_get_fx_data") =>
        /\ Len(res.req) = 1
        /\ res.req[1].ticker = "C:" \o arg.name
        /\ arg.name = "USDGBP" => res.req[1].ticker = "C:USDGBP"
        /\ arg.name = "USDEUR" => res.req[1].ticker = "C:USDEUR"

C9_Witness ==
    /\ Called("polygon_get_fx_data")
    /\ arg.name = "USDGBP"
    /\ res.req = <<[vendor |-> "polygon", ticker |-> "C:USDGBP"]>>

\* C10: when get_aggs succeeds with no record, polygon_get_fx_data prints
\* "No data found." and returns None; it never returns a table of no rows.
C10_PolygonEmptyGivesNone ==
    Called("polygon_get_fx_data") =>
        /\ (~vendor.raises /\ vendor.rows = <<>>) =>
              /\ res.kind = "return"
              /\ IsNone(res.ret)
              /\ res.out = <<"No data found.">>
        /\ ~IsNone(res.ret) => NRows(Table(res.ret)) > 0

C10_Witness ==
    /\ Called("polygon_get_fx_data")
    /\ ~vendor.raises /\ vendor.rows = <<>>
    /\ IsNone(res.ret) /\ res.out = <<"No data found.">>

\* C11: when yf.download succeeds with no row, yf_get_fx_data prints a
\* message and returns None, as it does on a failure; it never returns a
\* table of no rows.
C11_YfEmptyGivesNone ==
    Called("yf_get_fx_data") =>
        /\ (~vendor.raises /\ vendor.rows = <<>>) =>
              /\ res.kind = "return"
              /\ IsNone(res.ret)
              /\ Len(res.out) = 1
        /\ ~IsNone(res.ret) => NRows(Table(res.ret)) > 0

\* C12: when fred.get_series succeeds and no observation is dated inside
\* [start_date, end_date], fetch_fred_data prints a diagnostic and returns
\* None; it never returns a table of no rows.
C12_FredEmptyGivesNone ==
    Called("fetch_fred_data") =>
        /\ (~vendor.raises /\
            \A i \in 1..Len(vendor.series) :
                ~(arg.start <= vendor.series[i].date /\ vendor.series[i].date <= arg.end)) =>
              /\ res.kind = "return"
              /\ IsNone(res.ret)
              /\ Len(res.out) = 1
        /\ ~IsNone(res.ret) => NRows(Table(res.ret)) > 0

\* Timestamp a is earlier than timestamp b.
C13_Before(a, b) == a.sec < b.sec \/ (a.sec = b.sec /\ a.ms < b.ms)

\* C13: whatever rows the vendor returns (out of order, with repeated
\* timestamps, several inside one minute), the index of a table that
\* yf_get_fx_data or polygon_get_fx_data returns is strictly increasing:
\* every row is later than the row before it, so no timestamp is repeated.
C13_IndexStrictlyIncreasing ==
    (Ended /\ fn \in {"yf_get_fx_data", "polygon_get_fx_data"} /\ ~IsNone(res.ret)) =>
        LET t == Table(res.ret)
        IN  \A i \in 2..NRows(t) : C13_Before(t.index[i - 1], t.index[i])

(* Calls of calculate_volatility the state holds: the call a cell made
   directly, and the call made on what the first function returned.  Each
   is the argument as it was at the call (arg) and how the call ended. *)
VolCalls ==
    (IF Called("calculate_volatility") THEN {[given |-> input, ended |-> res]} ELSE {})
    \cup
    (IF pc = "piped" THEN {[given |-> res.ret, ended |-> post]} ELSE {})

\* The derived columns, in the order calculate_volatility assigns them.
C14_Derived == <<"Log_Returns", "Volatility", "Average_Volatility", "Volatility_Multiplier">>

\* C14 as stated: for every non-empty input table that has the close
\* column, calculate_volatility returns a table with the same rows in the
\* same order whose columns are the input's columns, unchanged in value and
\* order, followed by exactly the four new columns Log_Returns, Volatility,
\* Average_Volatility, Volatility_Multiplier in that order.
C14_FourColumnsAppended ==
    \A c \in VolCalls :
        (~IsNone(c.given) /\ ~IsEmpty(Table(c.given)) /\ HasCol(Table(c.given), CloseColumn)) =>
            /\ c.ended.kind = "return" /\ ~IsNone(c.ended.ret)
            /\ LET a == Table(c.given)
                   t == Table(c.ended.ret)
               IN  /\ t.index = a.index
                   /\ t.cols = a.cols \o C14_Derived
                   /\ \A d \in Range(a.cols) : t.val[d] = a.val[d]

\* C14 amended: for every non-empty input table that has the close column,
\* calculate_volatility returns a table with the same rows in the same
\* order; the input's columns other than the four derived ones are
\* unchanged in value, the input's columns keep their order, and the derived
\* columns the input lacks follow them in the order Log_Returns, Volatility,
\* Average_Volatility, Volatility_Multiplier: all four, after the original
\* columns, when the input has none of them; none when the input is a table
\* calculate_volatility returned, whose derived columns are overwritten
\* where they stand.
C14_MissingColumnsAppended ==
    \A c \in VolCalls :
        (~IsNone(c.given) /\ ~IsEmpty(Table(c.given)) /\ HasCol(Table(c.given), CloseColumn)) =>
            /\ c.ended.kind = "return" /\ ~IsNone(c.ended.ret)
            /\ LET a == Table(c.given)
                   t == Table(c.ended.ret)
                   missing == SelectSeq(C14_Derived, LAMBDA d : ~HasCol(a, d))
               IN  /\ t.index = a.index
                   /\ t.axis = a.axis
                   /\ t.cols = a.cols \o missing
                   /\ \A d \in Range(a.cols) \ Range(C14_Derived) : t.val[d] = a.val[d]
                   /\ Range(a.cols) \cap Range(C14_Derived) = {} =>
                         t.cols = a.cols \o C14_Derived
                   /\ Range(C14_Derived) \subseteq Range(a.cols) => t.cols = a.cols

C14_Witness ==
    \E c \in VolCalls :
        /\ ~IsNone(c.given) /\ ~IsNone(c.ended.ret)
        /\ NRows(Table(c.given)) = 3
        /\ Table(c.given).cols = <<"Open", "High", "Low", "Adj Close", "Volume", "vwap">>
        /\ Table(c.ended.ret).cols =
              <<"Open", "High", "Low", "Adj Close", "Volume", "vwap",
                "Log_Returns", "Volatility", "Average_Volatility", "Volatility_Multiplier">>

\* C15 as stated: calculate_volatility does not change the table object it
\* was given: after the call the caller's table has the columns and values
\* it had before, and a table the call returns is a distinct value.
C15_InputLeftUntouched ==
    \A c \in VolCalls :
        ~IsNone(c.given) =>
            /\ c.ended.obj = c.given
            /\ (c.ended.kind = "return" /\ ~IsNone(c.ended.ret)) =>
                  c.ended.ret # c.ended.obj

\* C15 amended: calculate_volatility adds its columns to the table object
\* it was given and returns that object: after a call that returns a table,
\* the caller's table is the returned table, it has the four derived
\* columns, and its other columns hold the values they held before; after
\* a call that returns None or raises, the caller's table is as it was.
C15_InputAugmentedInPlace ==
    \A c \in VolCalls :
        ~IsNone(c.given) =>
            IF c.ended.kind = "return" /\ ~IsNone(c.ended.ret)
            THEN /\ c.ended.obj = c.ended.ret
                 /\ LET a == Table(c.given)
                        o == Table(c.ended.obj)
                    IN  /\ Range(C14_Derived) \subseteq Range(o.cols)
                        /\ \A d \in Range(a.cols) \ Range(C14_Derived) :
                              HasCol(o, d) /\ o.val[d] = a.val[d]
                        /\ o.index = a.index
            ELSE c.ended.obj = c.given

C15_Witness ==
    /\ Called("calculate_volatility")
    /\ ~IsNone(input) /\ NRows(Table(input)) = 2
    /\ ~HasCol(Table(input), "Log_Returns")
    /\ res.kind = "return" /\ ~IsNone(res.ret)
    /\ res.obj = res.ret /\ res.obj # input
    /\ df = res.ret
    /\ HasCol(Table(df), "Log_Returns")

\* C16: a table that yf_get_fx_data or polygon_get_fx_data returns has the
\* close column under the name calculate_volatility reads, so
\* calculate_volatility on it returns an augmented table and does not
\* raise.
C16_NormalizerFeedsExtractor ==
    (Ended /\ fn \in {"yf_get_fx_data", "polygon_get_fx_data"} /\ ~IsNone(res.ret)) =>
        /\ HasCol(Table(res.ret), CloseColumn)
        /\ pc = "piped" =>
              /\ post.kind = "return"
              /\ ~IsNone(post.ret)
              /\ Range(C14_Derived) \subseteq Range(Table(post.ret).cols)

\* How the calls the state holds have ended: the call of fn, and the call
\* of calculate_volatility on what fn returned.
C17_Outcomes ==
    (IF Ended THEN {res} ELSE {}) \cup (IF pc = "piped" THEN {post} ELSE {})

\* C17: in yf_get_fx_data, polygon_get_fx_data, fetch_fred_data and
\* calculate_volatility a diagnostic is printed if and only if the call
\* returns None: a call that returns None has printed exactly one message,
\* a call that returns a table has printed none (nor has a call that
\* raises); the message of calculate_volatility is its own.
C17_DiagnosticIffNone ==
    /\ \A o \in C17_Outcomes :
          /\ o.kind \in {"return", "raise"}
          /\ (o.kind = "return" /\ IsNone(o.ret)) => Len(o.out) = 1
          /\ ~(o.kind = "return" /\ IsNone(o.ret)) => o.out = <<>>
    /\ \A c \in VolCalls :
          (c.ended.kind = "return" /\ IsNone(c.ended.ret)) =>
              c.ended.out = <<"Error: DataFrame is empty or invalid.">>

C17_Witness ==
    /\ pc = "piped" /\ fn = "polygon_get_fx_data"
    /\ vendor.raises
    /\ IsNone(res.ret) /\ res.out = <<"An error occurred: get_aggs failed">>
    /\ IsNone(post.ret) /\ post.out = <<"Error: DataFrame is empty or invalid.">>

\* x / y - 1 on two cells of the value column as the spec's formula reads:
\* null when either cell is missing.
C18_Change(x, y, scale) ==
    IF ~IsNum(x) \/ ~IsNum(y) \/ y = Num(0) THEN NaN
    ELSE Num(RoundHalfEven((x.v - y.v) * scale, y.v))

\* C18: in a table fetch_fred_data returns, Percentage_Change is null in
\* row 0 of the filtered window (also when the vendor's history has an
\* observation before start_date), and in every later row t it is
\* value[t] / value[t-1] - 1 rounded to 4 decimals, value[t-1] being the
\* row before t in the filtered window.
C18_PeriodChangeFromPreviousRow ==
    (Called("fetch_fred_data") /\ ~IsNone(res.ret)) =>
        LET t == Table(res.ret)
            value == t.val[arg.name]
        IN  \A i \in 1..NRows(t) :
                t.val["Percentage_Change"][i] =
                    IF i = 1 THEN NaN ELSE C18_Change(value[i], value[i - 1], PctScale)

\* C19: in a table fetch_fred_data returns for "CPIAUCSL", YoY_Inflation is
\* null in the first 12 rows of the filtered window (also when the vendor's
\* history has 12 or more observations before start_date), and in every
\* later row t it is (value[t] / value[t-12] - 1) * 100 rounded to 2
\* decimals, both values being rows of the filtered window.
C19_YoYFromTwelveRowsBack ==
    (Called("fetch_fred_data") /\ ~IsNone(res.ret) /\ arg.name = "CPIAUCSL") =>
        LET t == Table(res.ret)
            value == t.val[arg.name]
        IN  \A i \in 1..NRows(t) :
                t.val["YoY_Inflation"][i] =
                    IF i <= YoYPeriods THEN NaN
                    ELSE C18_Change(value[i], value[i - YoYPeriods], YoYScale)

\* The observations of the vendor's history dated inside the closed
\* interval [start_date, end_date], in the vendor's order.
C20_InWindow ==
    SelectSeq(vendor.series, LAMBDA o : arg.start <= o.date /\ o.date <= arg.end)

\* C20: the rows of a table fetch_fred_data returns are exactly the
\* observations of the vendor's full history dated inside the closed
\* interval [start_date, end_date], in the vendor's order, with the value
\* column as the vendor gave it; the filter comes before the change
\* columns: they start null at the window's first row (its first 12 rows
\* for YoY_Inflation), whatever the history holds before start_date.
C20_RowsAreTheWindow ==
    (Called("fetch_fred_data") /\ ~IsNone(res.ret)) =>
        LET t == Table(res.ret)
            w == C20_InWindow
        IN  /\ NRows(t) = Len(w)
            /\ \A i \in 1..Len(w) :
                  /\ t.index[i] = w[i].date
                  /\ t.val[arg.name][i] = w[i].value
            /\ t.cols[1] = arg.name
            /\ \A i \in 1..NRows(t) :
                  /\ i = 1 => IsNull(t.val["Percentage_Change"][i])
                  /\ (i <= YoYPeriods /\ HasCol(t, "YoY_Inflation")) =>
                        IsNull(t.val["YoY_Inflation"][i])

C20_Witness ==
    /\ Called("fetch_fred_data") /\ ~IsNone(res.ret)
    /\ Len(vendor.series) = MaxObs
    /\ arg.start = 2 /\ arg.end = 3
    /\ Table(res.ret).index = <<2, 3>>
    /\ IsNum(vendor.series[1].value)
    /\ IsNull(Table(res.ret).val["Percentage_Change"][1])
    /\ IsNum(Table(res.ret).val["Percentage_Change"][2])

\* C21: in a table calculate_volatility returns, Average_Volatility holds
\* one value on every row, the first row included; it is the arithmetic
\* mean of all the non-null Volatility cells of the whole series (to half a
\* Micro unit): null when there is none, infinite when one of them is.
C21_AverageIsOneGlobalMean ==
    \A c \in VolCalls :
        (c.ended.kind = "return" /\ ~IsNone(c.ended.ret)) =>
            LET t == Table(c.ended.ret)
                vol == t.val["Volatility"]
                avg == t.val["Average_Volatility"]
                defined == SelectSeq(vol, LAMBDA x : ~IsNull(x))
                n == Len(defined)
            IN  /\ \A i, j \in 1..NRows(t) : avg[i] = avg[j]
                /\ \A i \in 1..NRows(t) :
                      IF n = 0 THEN IsNull(avg[i])
                      ELSE IF \E k \in 1..n : ~IsNum(defined[k]) THEN avg[i] = PosInf
                      ELSE /\ IsNum(avg[i])
                           /\ 2 * Abs(n * avg[i].v - SumNum(defined)) <= n

C21_Witness ==
    /\ Called("calculate_volatility") /\ C5_Input
    /\ res.kind = "return" /\ ~IsNone(res.ret)
    /\ LET t == Table(res.ret)
       IN  /\ IsNull(t.val["Volatility"][1])
           /\ t.val["Volatility"][2] # t.val["Volatility"][3]
           /\ IsNum(t.val["Average_Volatility"][1])
           /\ t.val["Average_Volatility"][1] = t.val["Average_Volatility"][3]
           /\ t.val["Average_Volatility"][2] # t.val["Volatility"][2]

C23_Selected ==
    {"Open", "High", "Low", IF rev = "checkpoint" THEN "Close" ELSE "Adj Close"}

\* C23: a table yf_get_fx_data returns comes from a response with two
\* column levels and has single-level column names, the four selected price
\* fields and nothing else: Volume, Dividends, Stock Splits and the close
\* field that is not selected are discarded; a response that lacks one of
\* the selected fields gives None and one diagnostic, never a table with
\* the fields that are there.
C23_YfKeepsOnlyPriceFields ==
    Called("yf_get_fx_data") =>
        /\ ~IsNone(res.ret) =>
              /\ vendor.multi
              /\ Range(Table(res.ret).cols) = C23_Selected
              /\ Len(Table(res.ret).cols) = 4
              /\ Range(Table(res.ret).cols) \cap
                    {"Volume", "Dividends", "Stock Splits"} = {}
              /\ DOMAIN Table(res.ret).val = C23_Selected
        /\ (~vendor.raises /\ ~(C23_Selected \subseteq Range(vendor.fields))) =>
              /\ res.kind = "return"
              /\ IsNone(res.ret)
              /\ Len(res.out) = 1

C23_Witness ==
    /\ Called("yf_get_fx_data") /\ ~IsNone(res.ret)
    /\ "Dividends" \in Range(vendor.fields)
    /\ "Volume" \in Range(vendor.fields)
    /\ NRows(Table(res.ret)) = 2
    /\ Table(res.ret).cols = <<"Open", "High", "Low", "Adj Close">>

\* C24: a table yf_get_fx_data or polygon_get_fx_data returns has, as the
\* name of its column axis, the instrument identifier as the caller passed
\* it (for polygon the code without the "C:" sent to the vendor); the label
\* is not a column; calculate_volatility leaves the axis name as it is.
C24_LabelIsAxisName ==
    /\ (Ended /\ fn \in {"yf_get_fx_data", "polygon_get_fx_data"} /\ ~IsNone(res.ret)) =>
          /\ Table(res.ret).axis = arg.name
          /\ Table(res.ret).axis # "C:" \o arg.name
          /\ arg.name \notin Range(Table(res.ret).cols)
          /\ fn = "polygon_get_fx_data" =>
                /\ res.req[1].ticker = "C:" \o arg.name
                /\ res.req[1].ticker # Table(res.ret).axis
    /\ \A c \in VolCalls :
          (c.ended.kind = "return" /\ ~IsNone(c.ended.ret)) =>
              /\ Table(c.ended.ret).axis = Table(c.given).axis
              /\ Table(c.ended.ret).axis \notin Range(Table(c.ended.ret).cols)

C24_Witness ==
    /\ pc = "piped" /\ fn = "polygon_get_fx_data"
    /\ arg.name = "USDGBP"
    /\ ~IsNone(res.ret) /\ Table(res.ret).axis = "USDGBP"
    /\ res.req[1].ticker = "C:USDGBP"
    /\ post.kind = "return" /\ ~IsNone(post.ret)
    /\ Table(post.ret).axis = "USDGBP"

\* Everything printed so far, oldest first: by the fetcher, then by
\* calculate_volatility on the fetcher's result.
C26_Printed == res.out \o post.out

\* C26: in calculate_volatility(fetcher(...)), when the fetcher ends with
\* None (the vendor call raised, the response was malformed, or polygon had
\* no record), the fetcher has printed one diagnostic before
\* calculate_volatility starts; calculate_volatility then returns None
\* without raising and prints "Error: DataFrame is empty or invalid.", so
\* two diagnostics are out, the fetcher's first.
C26_SentinelPropagates ==
    (Ended /\ fn \in {"yf_get_fx_data", "polygon_get_fx_data"}
           /\ res.kind = "return" /\ IsNone(res.ret)) =>
        /\ Len(res.out) = 1
        /\ res.out[1] # "Error: DataFrame is empty or invalid."
        /\ pc = "returned" => C26_Printed = res.out
        /\ pc = "piped" =>
              /\ post.kind = "return"
              /\ IsNone(post.ret)
              /\ C26_Printed =
                    <<res.out[1], "Error: DataFrame is empty or invalid.">>
              /\ IsNone(df)

C26_Witness ==
    /\ pc = "piped" /\ fn = "yf_get_fx_data" /\ rev = "notebook"
    /\ ~vendor.raises /\ vendor.dt /\ vendor.multi /\ Len(vendor.rows) = 2
    /\ "Adj Close" \notin Range(vendor.fields)
    /\ IsNone(res.ret) /\ IsNone(post.ret)
    /\ C26_Printed = <<"An error occurred: KeyError: Adj Close",
                       "Error: DataFrame is empty or invalid.">>

\* C27: calculate_volatility applied to a table it returned gives that
\* table again: the four derived columns are overwritten with the values
\* they hold, no column is added, and columns, rows and values of
\* calculate_volatility(calculate_volatility(t)) are those of
\* calculate_volatility(t).
C27_Idempotent ==
    (pc = "piped" /\ fn = "calculate_volatility" /\ ~IsNone(res.ret)) =>
        /\ post.kind = "return" /\ ~IsNone(post.ret)
        /\ LET once == Table(res.ret)
               twice == Table(post.ret)
           IN  /\ twice.cols = once.cols
               /\ twice.index = once.index
               /\ \A c \in Range(once.cols) : twice.val[c] = once.val[c]
               /\ DOMAIN twice.val = DOMAIN once.val
               /\ Len(twice.cols) = Len(Table(input).cols) + 4
        /\ post.out = <<>>

C27_Witness ==
    /\ pc = "piped" /\ fn = "calculate_volatility" /\ C5_Input
    /\ ~IsNone(res.ret) /\ ~IsNone(post.ret)
    /\ Table(post.ret).val["Volatility_Multiplier"] = <<NaN, Num(133), Num(67)>>
    /\ Table(post.ret).cols = Table(res.ret).cols
    /\ Table(post.ret).cols # Table(input).cols

\* C28: for an input table of one row that has the close column,
\* calculate_volatility returns a table of one row, not None, in which
\* Log_Returns, Volatility, Average_Volatility and Volatility_Multiplier
\* are all null, whatever the close is.
C28_SingleRowAllNull ==
    \A c \in VolCalls :
        (~IsNone(c.given) /\ NRows(Table(c.given)) = 1
                          /\ HasCol(Table(c.given), CloseColumn)) =>
            /\ c.ended.kind = "return"
            /\ ~IsNone(c.ended.ret)
            /\ c.ended.out = <<>>
            /\ NRows(Table(c.ended.ret)) = 1
            /\ \A d \in Range(C14_Derived) :
                  /\ HasCol(Table(c.ended.ret), d)
                  /\ Table(c.ended.ret).val[d] = <<NaN>>
            /\ Table(c.ended.ret).val[CloseColumn] = Table(c.given).val[CloseColumn]

C28_Witness ==
    /\ Called("calculate_volatility") /\ pc = "returned"
    /\ ~IsNone(input) /\ NRows(Table(input)) = 1
    /\ Table(input).val["Adj Close"] = <<Num(200)>>
    /\ ~IsNone(res.ret)
    /\ Table(res.ret).val["Average_Volatility"] = <<NaN>>
    /\ Table(res.ret).val["Log_Returns"] = <<NaN>>

====
